---- MODULE Spec2Model ----
(***************************************************************************)
(* Contract risk scanner (Scripts/risk_scanner.py): the keyword rule table *)
(* RISK_RULES, the sentence scanner scan_contract with its per-finding AI  *)
(* summary, the four report exports driven by scan_file, the rule editing  *)
(* handlers add_keyword / remove_keyword and the menu loop main_menu.      *)
(*                                                                         *)
(* Python strings are TLA+ strings; a character is a string of length 1,   *)
(* read with SubSeq(s, i, i).  Every handler of the menu is one action.    *)
(***************************************************************************)
EXTENDS Integers, Sequences, FiniteSets, TLC

VARIABLES
    pc,          \* "menu" | "exited" | "crashed" (uncaught exception left main_menu)
    fault,       \* the exception that ended the process, "" while it runs
    RISK_RULES,  \* the dict, in insertion order: Seq of [name, keywords]
    last,        \* the last handler run and what the user typed at its prompts
    out,         \* what the last handler printed, in order
    text,        \* the text the last scan read
    results,     \* the list the last scan_contract call returned
    calls,       \* outcome of each openai call of the last scan, in call order
    csv,         \* this run's ../reports/<base>_report.csv
    docx,        \* this run's ../reports/<base>_report.docx
    pdf,         \* this run's ../reports/<base>_highlighted.pdf
    chart,       \* this run's ../reports/risk_dashboard.png
    edits        \* number of rule-editing handlers run so far (bounds the model)

vars == <<pc, fault, RISK_RULES, last, out, text, results, calls, csv, docx, pdf, chart, edits>>

-----------------------------------------------------------------------------
(* Bounds of the model *)

\* rule-editing handlers (add_keyword, remove_keyword) run in one behaviour
MaxEdits == 2
\* pieces concatenated into a text handed to scan_contract in ScanSpec
MaxPieces == 2

-----------------------------------------------------------------------------
(* str methods *)

Char(s, i) == SubSeq(s, i, i)

UpperCase == "ABCDEFGHIJKLMNOPQRSTUVWXYZ"
LowerCase == "abcdefghijklmnopqrstuvwxyz"

\* the lower-case letter of each upper-case letter
LowerOf ==
    [c \in {Char(UpperCase, i) : i \in 1..Len(UpperCase)} |->
        Char(LowerCase, CHOOSE i \in 1..Len(UpperCase) : Char(UpperCase, i) = c)]

\* c.lower() for one character
LowerChar(c) == IF c \in DOMAIN LowerOf THEN LowerOf[c] ELSE c

RECURSIVE Lower(_)
\* s.lower(): character by character (the string is halved, not peeled, to
\* keep the evaluation shallow)
Lower(s) ==
    IF Len(s) = 0 THEN ""
    ELSE IF Len(s) = 1 THEN LowerChar(s)
    ELSE Lower(SubSeq(s, 1, Len(s) \div 2)) \o Lower(SubSeq(s, Len(s) \div 2 + 1, Len(s)))

\* the characters str.strip() removes, of those the texts use
IsSpace(c) == c \in {" ", "\n", "\t"}

\* s.lstrip(): everything from the first character that is no whitespace
LStrip(s) ==
    IF \A i \in 1..Len(s) : IsSpace(Char(s, i)) THEN ""
    ELSE SubSeq(s, CHOOSE i \in 1..Len(s) :
                       /\ ~IsSpace(Char(s, i))
                       /\ \A j \in 1..(i - 1) : IsSpace(Char(s, j)),
                Len(s))

\* s.rstrip(): everything up to the last character that is no whitespace
RStrip(s) ==
    IF \A i \in 1..Len(s) : IsSpace(Char(s, i)) THEN ""
    ELSE SubSeq(s, 1, CHOOSE i \in 1..Len(s) :
                          /\ ~IsSpace(Char(s, i))
                          /\ \A j \in (i + 1)..Len(s) : IsSpace(Char(s, j)))

\* s.strip()
Strip(s) == RStrip(LStrip(s))

RECURSIVE SplitFrom(_, _, _)
\* the parts of s from position `start` on
SplitFrom(s, sep, start) ==
    IF \E j \in start..Len(s) : Char(s, j) = sep
    THEN LET j == CHOOSE j \in start..Len(s) :
                      /\ Char(s, j) = sep
                      /\ \A k \in start..(j - 1) : Char(s, k) # sep
         IN  <<SubSeq(s, start, j - 1)>> \o SplitFrom(s, sep, j + 1)
    ELSE <<SubSeq(s, start, Len(s))>>

\* s.split(sep) for a one-character separator: never empty, "" gives [""]
Split(s, sep) == SplitFrom(s, sep, 1)

\* kw in s
Contains(kw, s) ==
    \E i \in 0..(Len(s) - Len(kw)) : SubSeq(s, i + 1, i + Len(kw)) = kw

\* s.endswith(suffix)
EndsWith(s, suffix) ==
    /\ Len(s) >= Len(suffix)
    /\ SubSeq(s, Len(s) - Len(suffix) + 1, Len(s)) = suffix

-----------------------------------------------------------------------------
(* The rule table *)

\* RISK_RULES as the module defines it
RISK_RULES_default == <<
    [name |-> "Indemnity",
     keywords |-> <<"indemnify", "hold harmless", "liability", "compensate">>],
    [name |-> "Jurisdiction Risk",
     keywords |-> <<"jurisdiction", "governing law", "venue", "court">>],
    [name |-> "Payment Risk",
     keywords |-> <<"penalty", "late fee", "interest", "non-payment">>],
    [name |-> "Termination Risk",
     keywords |-> <<"terminate", "termination", "breach">>],
    [name |-> "Confidentiality Risk",
     keywords |-> <<"confidential", "non-disclosure", "nda">>] >>

\* category in rules
HasCategory(rules, category) == \E c \in 1..Len(rules) : rules[c].name = category

\* the position of the key in the dict
CategoryIndex(rules, category) == CHOOSE c \in 1..Len(rules) : rules[c].name = category

\* rules[category]
KeywordsOf(rules, category) == rules[CategoryIndex(rules, category)].keywords

\* rules[category] = keywords: a present key keeps its place, a new one goes last
SetCategory(rules, category, keywords) ==
    IF HasCategory(rules, category)
    THEN [rules EXCEPT ![CategoryIndex(rules, category)].keywords = keywords]
    ELSE Append(rules, [name |-> category, keywords |-> keywords])

\* kw in keywords (a list)
InList(keywords, kw) == \E k \in 1..Len(keywords) : keywords[k] = kw

\* keywords.remove(kw): the first occurrence goes, later ones stay
ListRemove(keywords, kw) ==
    LET k == CHOOSE k \in 1..Len(keywords) :
                 /\ keywords[k] = kw
                 /\ \A j \in 1..(k - 1) : keywords[j] # kw
    IN  SubSeq(keywords, 1, k - 1) \o SubSeq(keywords, k + 1, Len(keywords))

-----------------------------------------------------------------------------
(* The scanner *)

\* what an openai call can do: answer, or raise
Outcomes == {"ok", "RateLimitError"}

\* response.choices[0].message.content of an answered call
SummaryText == "plain-English summary"

\* ai_summarize_risk never raises: the except clause turns it into a string
ErrorMarker(e) == "AI summary error: " \o e

ai_summarize_risk(clause, outcome) ==
    IF outcome = "ok" THEN SummaryText ELSE ErrorMarker(outcome)

\* the value of a one-element set (used to evaluate an intermediate value
\* once instead of carrying it unevaluated)
Only(S) == CHOOSE x \in S : TRUE

RECURSIVE RuleItems(_)
\* for risk_label, keywords in RISK_RULES.items(): for kw in keywords: the
\* (risk_label, kw) pairs in the order the two loops visit them, each with
\* its kw.lower()
RuleItems(rules) ==
    IF rules = <<>> THEN <<>>
    ELSE [k \in 1..Len(Head(rules).keywords) |->
              [RiskType |-> Head(rules).name,
               Keyword |-> Head(rules).keywords[k],
               lower |-> Lower(Head(rules).keywords[k])]]
         \o RuleItems(Tail(rules))

\* ScanLine with the sentence left in its original casing (`.lower()` forgotten)
ScanLineCaseSensitive(line, i, items) ==
    Only({ LET Hit(item) == Contains(item.lower, sentence)
               hits == SelectSeq(items, Hit)
           IN  [j \in 1..Len(hits) |->
                   [RiskType |-> hits[j].RiskType,
                    Keyword |-> hits[j].Keyword,
                    Sentence |-> Strip(line),
                    LineNumber |-> i + 1]] :
           sentence \in {Strip(line)} })

\* what the body of the line loop appends for line number i (counted from 0):
\* one entry per (risk_label, kw) with kw.lower() in sentence
ScanLine(line, i, items) ==
    Only({ LET Hit(item) == Contains(item.lower, sentence)
               hits == SelectSeq(items, Hit)
           IN  [j \in 1..Len(hits) |->
                   [RiskType |-> hits[j].RiskType,
                    Keyword |-> hits[j].Keyword,
                    Sentence |-> Strip(line),
                    LineNumber |-> i + 1]] :
           sentence \in {Lower(Strip(line))} })

RECURSIVE ScanLines(_, _, _)
\* for i, line in enumerate(lines): ... (from line i on)
ScanLines(lines, i, items) ==
    IF i >= Len(lines) THEN <<>>
    ELSE ScanLine(lines[i + 1], i, items) \o ScanLines(lines, i + 1, items)

\* the matches of scan_contract(text) against the table `rules`, in the order
\* its loops append them; each is one call of ai_summarize_risk
Matches(t, rules) ==
    Only({ ScanLines(ls[1], 0, ls[2]) : ls \in {<<Split(t, "."), RuleItems(rules)>>} })

\* the dict scan_contract appends for match m, its summary call doing `outcome`
Finding(m, outcome) ==
    [RiskType |-> m.RiskType,
     Keyword |-> m.Keyword,
     Sentence |-> m.Sentence,
     LineNumber |-> m.LineNumber,
     AISummary |-> ai_summarize_risk(m.Sentence, outcome)]

\* Enrich with the except clause skipping the finding instead of marking it
EnrichDroppingFailed(matches, oracle) ==
    LET kept == SelectSeq([j \in 1..Len(matches) |-> j], LAMBDA j : oracle[j] = "ok")
    IN  [n \in 1..Len(kept) |-> Finding(matches[kept[n]], "ok")]

\* the list scan_contract returns when its j-th summary call does oracle[j]
Enrich(matches, oracle) ==
    [j \in 1..Len(matches) |-> Finding(matches[j], oracle[j])]

\* scan_contract(text)
scan_contract(t, rules, oracle) == Enrich(Matches(t, rules), oracle)

-----------------------------------------------------------------------------
(* The report exports *)

\* Score with the Yellow band ending at four (`<` for `<=`)
ScoreFiveIsRed(num_risks) ==
    IF num_risks = 0 THEN "Green"
    ELSE IF num_risks < 5 THEN "Yellow"
    ELSE "Red"

\* the score save_docx_report writes, from the number of findings
Score(num_risks) ==
    IF num_risks = 0 THEN "Green"
    ELSE IF num_risks <= 5 THEN "Yellow"
    ELSE "Red"

RECURSIVE Counter(_)
\* collections.Counter(labels): each label's number of occurrences
Counter(labels) ==
    IF labels = <<>> THEN <<>>
    ELSE LET counts == Counter(SubSeq(labels, 1, Len(labels) - 1))
             l == labels[Len(labels)]
         IN  IF l \in DOMAIN counts
             THEN [counts EXCEPT ![l] = @ + 1]
             ELSE counts @@ (l :> 1)

\* generate_dashboard returns before drawing: `if not all_results`
DashboardSkipped(all_results) == all_results = <<>>

\* DashboardBars grouping by the wrong column
DashboardBarsByKeyword(all_results) ==
    Counter([j \in 1..Len(all_results) |-> all_results[j].Keyword])

\* the bars generate_dashboard draws
DashboardBars(all_results) ==
    Counter([j \in 1..Len(all_results) |-> all_results[j].RiskType])

\* no report of this run exists yet
NoCsv == [status |-> "none", rows |-> 0]
NoDocx == [status |-> "none", num_risks |-> 0, score |-> ""]
NoPdf == [status |-> "none", keywords |-> {}]
NoChart == [status |-> "none", bars |-> <<>>]

\* the exports of scan_file, in the order it calls them; the first write that
\* raises (failAt) ends the run there, nothing catches it
Exports == <<"csv", "docx", "pdf", "chart">>
FailPoints == {"none", "csv", "docx", "pdf", "chart"}

\* save_csv_report: one row per finding
save_csv_report(res, failAt) ==
    IF failAt = "csv" THEN [status |-> "failed", rows |-> 0]
    ELSE [status |-> "saved", rows |-> Len(res)]

\* save_docx_report: the count, the score, one block per finding
save_docx_report(res, failAt) ==
    IF failAt = "docx" THEN [status |-> "failed", num_risks |-> 0, score |-> ""]
    ELSE [status |-> "saved", num_risks |-> Len(res), score |-> Score(Len(res))]

\* highlight_pdf: the distinct keywords of the findings
highlight_pdf(res, failAt) ==
    IF failAt = "pdf" THEN [status |-> "failed", keywords |-> {}]
    ELSE [status |-> "saved", keywords |-> {res[j].Keyword : j \in 1..Len(res)}]

\* generate_dashboard
generate_dashboard(all_results, failAt) ==
    IF DashboardSkipped(all_results) THEN [status |-> "skipped", bars |-> <<>>]
    ELSE IF failAt = "chart"
         THEN [status |-> "failed", bars |-> DashboardBars(all_results)]
         ELSE [status |-> "saved", bars |-> DashboardBars(all_results)]

-----------------------------------------------------------------------------
(* Inputs *)

\* what the user types at add_keyword's and remove_keyword's prompts
CategoryInputs == {"Indemnity", "Force Majeure Risk", "NEW"}
NewCategoryInputs == {"Indemnity", "Force Majeure Risk"}
KeywordInputs == {"Indemnify"}

\* what os.listdir("../contracts") can return
Listings == { <<"notes.txt">>, <<"Lease.docx", "NDA.PDF", "notes.txt">> }

\* what the parser makes of the chosen file: its text, an exception out of
\* docx.Document / pdfplumber.open (a corrupt file), or, for a PDF, a page
\* whose extract_text() is None (no text layer), which `None + "\n"` turns
\* into a TypeError
Parses(file_path) ==
    IF EndsWith(Lower(file_path), ".pdf")
    THEN {"text", "raises", "none_page"}
    ELSE {"text", "raises"}

\* what the contracts of the menu loop hold
Contracts == { "", "The Vendor shall Indemnify the Client." }

\* longer contracts, with five and six findings under the default table
LongContracts == {
    "Court venue: NDA breach, late fee",
    "Indemnify. Court venue: NDA breach, late fee" }

\* the pieces the generated texts are put together from
Pieces == { ".", " \n", "Indemnify", "Court venue", "late", " fee" }

RECURSIVE TextsOf(_)
\* the texts of at most n pieces
TextsOf(n) ==
    IF n = 0 THEN {""}
    ELSE LET shorter == TextsOf(n - 1)
         IN  shorter \cup {p \o t : p \in Pieces, t \in shorter}

\* the texts one scan is tried on
Texts == TextsOf(MaxPieces) \cup LongContracts

-----------------------------------------------------------------------------
(* Rule editing *)

\* the table add_keyword leaves
AddKeyword(rules, category, new_cat, keyword) ==
    LET created == Lower(category) = "new"
        rules1 == IF created THEN SetCategory(rules, new_cat, <<>>) ELSE rules
        cat == IF created THEN new_cat ELSE category
    IN  IF ~HasCategory(rules1, cat) THEN rules1
        ELSE SetCategory(rules1, cat, Append(KeywordsOf(rules1, cat), Lower(keyword)))

\* the table remove_keyword leaves
RemoveKeyword(rules, category, keyword) ==
    IF ~HasCategory(rules, category) THEN rules
    ELSE IF InList(KeywordsOf(rules, category), Lower(keyword))
         THEN SetCategory(rules, category,
                          ListRemove(KeywordsOf(rules, category), Lower(keyword)))
         ELSE rules

-----------------------------------------------------------------------------
(* The handlers *)

Init ==
    /\ pc = "menu"
    /\ fault = ""
    /\ RISK_RULES = RISK_RULES_default
    /\ last = [op |-> "start"]
    /\ out = <<>>
    /\ text = ""
    /\ results = <<>>
    /\ calls = <<>>
    /\ csv = NoCsv
    /\ docx = NoDocx
    /\ pdf = NoPdf
    /\ chart = NoChart
    /\ edits = 0

\* add_keyword()
add_keyword ==
    /\ pc = "menu"
    /\ edits < MaxEdits
    /\ \E category \in CategoryInputs, new_cat \in NewCategoryInputs,
          keyword \in KeywordInputs :
        LET cat == IF Lower(category) = "new" THEN new_cat ELSE category
            after == AddKeyword(RISK_RULES, category, new_cat, keyword)
        IN  /\ RISK_RULES' = after
            /\ last' = [op |-> "add_keyword", category |-> category,
                        new_cat |-> IF Lower(category) = "new" THEN new_cat ELSE "",
                        keyword |-> keyword]
            /\ out' = IF HasCategory(after, cat)
                      THEN <<"Keyword '" \o Lower(keyword) \o "' added to '" \o cat \o "'.">>
                      ELSE <<"Category does not exist.">>
    /\ edits' = edits + 1
    /\ UNCHANGED <<pc, fault, text, results, calls, csv, docx, pdf, chart>>

\* remove_keyword with findings that follow the table: removing a keyword
\* also removes the findings it produced
remove_keyword_purging ==
    /\ pc = "menu"
    /\ edits < MaxEdits
    /\ \E category \in CategoryInputs \cup NewCategoryInputs, keyword \in KeywordInputs :
        /\ RISK_RULES' = RemoveKeyword(RISK_RULES, category, keyword)
        /\ last' = [op |-> "remove_keyword", category |-> category,
                    keyword |-> IF HasCategory(RISK_RULES, category) THEN keyword ELSE ""]
        /\ out' = IF ~HasCategory(RISK_RULES, category)
                  THEN <<"Category does not exist.">>
                  ELSE IF InList(KeywordsOf(RISK_RULES, category), Lower(keyword))
                       THEN <<"Keywords in " \o category, "Keyword removed.">>
                       ELSE <<"Keywords in " \o category, "Keyword not found.">>
        /\ results' = SelectSeq(results,
                          LAMBDA r : ~(r.RiskType = category /\ r.Keyword = Lower(keyword)))
    /\ edits' = edits + 1
    /\ UNCHANGED <<pc, fault, text, calls, csv, docx, pdf, chart>>

\* remove_keyword()
remove_keyword ==
    /\ pc = "menu"
    /\ edits < MaxEdits
    /\ \E category \in CategoryInputs \cup NewCategoryInputs, keyword \in KeywordInputs :
        /\ RISK_RULES' = RemoveKeyword(RISK_RULES, category, keyword)
        /\ last' = [op |-> "remove_keyword", category |-> category,
                    keyword |-> IF HasCategory(RISK_RULES, category) THEN keyword ELSE ""]
        /\ out' = IF ~HasCategory(RISK_RULES, category)
                  THEN <<"Category does not exist.">>
                  ELSE IF InList(KeywordsOf(RISK_RULES, category), Lower(keyword))
                       THEN <<"Keywords in " \o category, "Keyword removed.">>
                       ELSE <<"Keywords in " \o category, "Keyword not found.">>
    /\ edits' = edits + 1
    /\ UNCHANGED <<pc, fault, text, results, calls, csv, docx, pdf, chart>>

\* read_document(file_path): the text, or the exception that leaves it
read_document(file_path, content, parse) ==
    IF EndsWith(Lower(file_path), ".docx")
    THEN IF parse = "raises"
         THEN [raised |-> "PackageNotFoundError", text |-> "", out |-> <<>>]
         ELSE [raised |-> "", text |-> content, out |-> <<>>]
    ELSE IF EndsWith(Lower(file_path), ".pdf")
    THEN IF parse = "raises"
         THEN [raised |-> "PDFSyntaxError", text |-> "", out |-> <<>>]
         ELSE IF parse = "none_page"
         THEN [raised |-> "TypeError", text |-> "", out |-> <<>>]
         ELSE [raised |-> "", text |-> content \o "\n", out |-> <<>>]
    ELSE [raised |-> "", text |-> "", out |-> <<"Unsupported file format.">>]

\* f.lower().endswith((".docx", ".pdf"))
IsContractFile(f) == EndsWith(Lower(f), ".docx") \/ EndsWith(Lower(f), ".pdf")

\* scan_file(), the contracts' contents drawn from docs
scan_file(docs) ==
    /\ pc = "menu"
    /\ \E listing \in Listings :
        \E files \in {SelectSeq(listing, IsContractFile)} :
        IF files = <<>>
        THEN /\ out' = <<"No DOCX or PDF files found in ../contracts.">>
             /\ UNCHANGED <<pc, fault, text, results, calls, csv, docx, pdf, chart>>
        ELSE \E choice \in 1..(Len(files) + 1) :
            IF choice - 1 >= Len(files)
            THEN \* files[choice]: IndexError, caught nowhere
                 /\ pc' = "crashed"
                 /\ fault' = "IndexError"
                 /\ out' = <<"Available contract files:">>
                 /\ UNCHANGED <<text, results, calls, csv, docx, pdf, chart>>
            ELSE LET file_name == files[choice]
                     file_path == "../contracts/" \o file_name
                 IN  \E content \in docs, parse \in Parses(file_path) :
                     \E rd \in {read_document(file_path, content, parse)} :
                     LET head == <<"Available contract files:",
                                   "Reading file: " \o file_name \o "...">> \o rd.out
                     IN
                     IF rd.raised # ""
                     THEN \* the parser's exception, caught nowhere
                          /\ pc' = "crashed"
                          /\ fault' = rd.raised
                          /\ out' = head
                          /\ UNCHANGED <<text, results, calls, csv, docx, pdf, chart>>
                     ELSE IF Strip(rd.text) = ""
                     THEN /\ out' = Append(head, "No text extracted from file. Cannot scan.")
                          /\ UNCHANGED <<pc, fault, text, results, calls, csv, docx, pdf, chart>>
                     ELSE \E matches \in {Matches(rd.text, RISK_RULES)} :
                          \E oracle \in [1..Len(matches) -> Outcomes] :
                          \E res \in {Enrich(matches, oracle)} :
                          \E failAt \in FailPoints :
                          \E c \in {save_csv_report(res, failAt)} :
                          \E d \in {IF c.status = "saved"
                                    THEN save_docx_report(res, failAt) ELSE NoDocx} :
                          \E h \in {IF d.status = "saved" /\ EndsWith(Lower(file_path), ".pdf")
                                    THEN highlight_pdf(res, failAt) ELSE NoPdf} :
                          \E g \in {IF d.status = "saved" /\ h.status # "failed"
                                    THEN generate_dashboard(res, failAt) ELSE NoChart} :
                          LET failed == "failed" \in {c.status, d.status, h.status, g.status}
                          IN  /\ text' = rd.text
                              /\ results' = res
                              /\ calls' = oracle
                              /\ csv' = c
                              /\ docx' = d
                              /\ pdf' = h
                              /\ chart' = g
                              /\ pc' = IF failed THEN "crashed" ELSE "menu"
                              /\ fault' = IF failed THEN "OSError" ELSE ""
                              /\ out' = head
                                   \o <<"Scanning for risks with AI summaries...">>
                                   \o (IF res = <<>>
                                       THEN <<"No risks found. Contract appears clean.">>
                                       ELSE <<"risks found. Generating reports...">>)
                                   \o (IF c.status = "saved"
                                       THEN <<"CSV report saved">> ELSE <<>>)
                                   \o (IF d.status = "saved"
                                       THEN <<"DOCX report saved">> ELSE <<>>)
                                   \o (IF h.status = "saved"
                                       THEN <<"PDF with highlights saved">> ELSE <<>>)
                                   \o (IF g.status = "skipped"
                                       THEN <<"No results to generate dashboard.">>
                                       ELSE IF g.status = "saved"
                                       THEN <<"Dashboard saved to ../reports/risk_dashboard.png">>
                                       ELSE <<>>)
    /\ last' = [op |-> "scan_file"]
    /\ UNCHANGED <<RISK_RULES, edits>>

\* show_rules()
show_rules ==
    /\ pc = "menu"
    /\ last' = [op |-> "show_rules"]
    /\ out' = <<"=== CURRENT RISK RULES ===">>
              \o [c \in 1..Len(RISK_RULES) |-> RISK_RULES[c].name \o ":"]
    /\ UNCHANGED <<pc, fault, RISK_RULES, text, results, calls, csv, docx, pdf, chart, edits>>

\* choice "5"
quit ==
    /\ pc = "menu"
    /\ pc' = "exited"
    /\ last' = [op |-> "quit"]
    /\ out' = <<"Goodbye!">>
    /\ UNCHANGED <<fault, RISK_RULES, text, results, calls, csv, docx, pdf, chart, edits>>

\* any other choice
invalid_choice ==
    /\ pc = "menu"
    /\ last' = [op |-> "invalid_choice"]
    /\ out' = <<"Invalid choice. Try again.">>
    /\ UNCHANGED <<pc, fault, RISK_RULES, text, results, calls, csv, docx, pdf, chart, edits>>

\* main_menu(): one handler per pass of the loop
Next ==
    \/ scan_file(Contracts)
    \/ show_rules
    \/ add_keyword
    \/ remove_keyword
    \/ quit
    \/ invalid_choice

Spec == Init /\ [][Next]_vars

\* keywords typed at the prompts before the scan of ScanSpec
ScanKeywordInputs == {"Indemnify", "Venue"}

\* the tables one rule edit away from the default one
RuleTables ==
    {RISK_RULES_default}
    \cup {AddKeyword(RISK_RULES_default, c, n, k) :
             c \in CategoryInputs, n \in NewCategoryInputs, k \in ScanKeywordInputs}
    \cup {RemoveKeyword(RISK_RULES_default, c, k) :
             c \in CategoryInputs \cup NewCategoryInputs, k \in ScanKeywordInputs}

\* a fresh process whose table is any of RuleTables
InitScan ==
    /\ pc = "menu"
    /\ fault = ""
    /\ RISK_RULES \in RuleTables
    /\ last = [op |-> "start"]
    /\ out = <<>>
    /\ text = ""
    /\ results = <<>>
    /\ calls = <<>>
    /\ csv = NoCsv
    /\ docx = NoDocx
    /\ pdf = NoPdf
    /\ chart = NoChart
    /\ edits = 0

\* its first handler is scan_file, on any of Texts
NextScan == out = <<>> /\ scan_file(Texts)

ScanSpec == InitScan /\ [][NextScan]_vars

-----------------------------------------------------------------------------
(* Properties *)

\* the last handler was a scan_file run that got as far as scan_contract, so
\* text, results and calls are that run's and RISK_RULES the table it read
Scanned == InList(out, "Scanning for risks with AI summaries...")

\* the positions of the sentence delimiter in t
C1_Dots(t) == {j \in 1..Len(t) : Char(t, j) = "."}

\* the position of the n-th delimiter of D; 0 before the first, Len + 1 after
\* the last
C1_Dot(t, D, n) ==
    IF n = 0 THEN 0
    ELSE IF n > Cardinality(D) THEN Len(t) + 1
    ELSE CHOOSE d \in D : Cardinality({e \in D : e <= d}) = n

\* the i-th '.'-delimited sentence unit of t, trimmed, original casing
C1_Unit(t, D, i) == Strip(SubSeq(t, C1_Dot(t, D, i - 1) + 1, C1_Dot(t, D, i) - 1))

\* k occurs in s: some window of s spells k
C1_Occurs(k, s) ==
    \E a \in 1..(Len(s) + 1) :
        /\ a + Len(k) - 1 <= Len(s)
        /\ SubSeq(s, a, a + Len(k) - 1) = k

\* the table's (category, keyword) positions
C1_Slots ==
    UNION { { <<c, k>> : k \in 1..Len(RISK_RULES[c].keywords) } : c \in 1..Len(RISK_RULES) }

\* the (sentence, category, keyword) positions whose lowercased keyword occurs
\* in the trimmed lowercased sentence
C1_Hits(t, D) ==
    UNION { UNION { UNION { { <<i, q[1], q[2]>> :
                              q \in {p \in C1_Slots : C1_Occurs(lowered[p], s)} } :
                            s \in {Lower(C1_Unit(t, D, i))} } :
                    i \in 1..(Cardinality(D) + 1) } :
            lowered \in {[p \in C1_Slots |-> Lower(RISK_RULES[p[1]].keywords[p[2]])]} }

\* document order, then category order, then keyword order
C1_NotAfter(g, h) ==
    \/ g[1] < h[1]
    \/ g[1] = h[1] /\ g[2] < h[2]
    \/ g[1] = h[1] /\ g[2] = h[2] /\ g[3] <= h[3]

\* C1: the scan returns exactly one finding (category, keyword, trimmed
\* original-cased sentence, 1-based ordinal) per matching (sentence, category,
\* keyword) position, in document order and, within a sentence, in the
\* table's category-then-keyword order; none dropped, merged or reordered
C1_ScanEnumeratesMatches ==
    Scanned =>
        \A D \in {C1_Dots(text)} :
        \A H \in {C1_Hits(text, D)} :
            /\ Len(results) = Cardinality(H)
            /\ \A h \in H :
                LET r == results[Cardinality({g \in H : C1_NotAfter(g, h)})]
                IN  /\ r.RiskType = RISK_RULES[h[2]].name
                    /\ r.Keyword = RISK_RULES[h[2]].keywords[h[3]]
                    /\ r.Sentence = C1_Unit(text, D, h[1])
                    /\ r.LineNumber = h[1]

\* a second sentence "Court venue" matched case-insensitively: its findings
\* come in the table's order (venue before court), after the first sentence's
C1_Witness ==
    /\ Scanned
    /\ \E j \in 1..(Len(results) - 1) :
        /\ results[j].Keyword = "venue" /\ results[j + 1].Keyword = "court"
        /\ results[j].LineNumber = 2 /\ results[j + 1].LineNumber = 2
        /\ results[j].Sentence = "Court venue"
        /\ Strip(text) # text

\* C2: the band is fixed by the finding count alone: 0 gives Green (Clean),
\* 1 to 5 give Yellow (Moderate), 6 and more give Red (Elevated)
C2_ScoreThresholds ==
    docx.status = "saved" =>
        /\ docx.num_risks = Len(results)
        /\ (Len(results) = 0 => docx.score = "Green")
        /\ (Len(results) \in 1..5 => docx.score = "Yellow")
        /\ (Len(results) >= 6 => docx.score = "Red")

\* a report of exactly six findings, the first count of the Red band
C2_Witness ==
    /\ docx.status = "saved"
    /\ Len(results) = 6
    /\ docx.score = "Red"

\* C6: whatever the summary calls do, every match yields exactly one finding
\* in its own position, a failed call's finding carries the error marker in
\* place of the summary, and the scan completes (no summarizer fault ends it)
C6_EnrichmentOneToOne ==
    Scanned =>
        \A m \in {Matches(text, RISK_RULES)} :
            /\ Len(results) = Len(m)
            /\ Len(calls) = Len(m)
            /\ fault \notin Outcomes
            /\ \A j \in 1..Len(m) :
                /\ results[j].RiskType = m[j].RiskType
                /\ results[j].Keyword = m[j].Keyword
                /\ results[j].Sentence = m[j].Sentence
                /\ results[j].LineNumber = m[j].LineNumber
                /\ results[j].AISummary =
                       IF calls[j] = "ok" THEN SummaryText ELSE ErrorMarker(calls[j])

\* a scan of several matches every one of whose summary calls failed
C6_Witness ==
    /\ Scanned
    /\ Len(results) >= 3
    /\ \A j \in 1..Len(calls) : calls[j] # "ok"
    /\ \A j \in 1..Len(results) : results[j].AISummary = ErrorMarker("RateLimitError")

RECURSIVE C10_Sum(_, _)
\* the sum of the bars over the categories S
C10_Sum(bars, S) ==
    IF S = {} THEN 0
    ELSE LET l == CHOOSE l \in S : TRUE IN bars[l] + C10_Sum(bars, S \ {l})

\* C10: once generate_dashboard has run, the chart is skipped, reported and no
\* fault, exactly when the result is empty; otherwise its bars are the finding
\* counts per risk category, which sum to the number of findings
C10_ChartSkippedIffEmpty ==
    chart.status # "none" =>
        /\ chart.status = "skipped" <=> results = <<>>
        /\ chart.status = "skipped" =>
               /\ InList(out, "No results to generate dashboard.")
               /\ pc = "menu"
        /\ chart.status # "skipped" =>
               /\ DOMAIN chart.bars = {results[j].RiskType : j \in 1..Len(results)}
               /\ \A l \in DOMAIN chart.bars :
                      chart.bars[l] =
                          Cardinality({j \in 1..Len(results) : results[j].RiskType = l})
               /\ C10_Sum(chart.bars, DOMAIN chart.bars) = Len(results)

\* a saved chart of several bars, one of them counting more than one finding
C10_Witness ==
    /\ chart.status = "saved"
    /\ Len(results) = 6
    /\ Cardinality(DOMAIN chart.bars) >= 3
    /\ \E l \in DOMAIN chart.bars : chart.bars[l] = 2

\* C7: no rule edit changes the findings a completed scan returned; every
\* field of every finding keeps its value
C7_SnapshotIsolation ==
    [][last'.op \in {"add_keyword", "remove_keyword"} => results' = results]_vars

\* a finding whose keyword has since been removed from its category
C7_Witness ==
    /\ last.op = "remove_keyword"
    /\ \E j \in 1..Len(results) :
        /\ HasCategory(RISK_RULES, results[j].RiskType)
        /\ ~InList(KeywordsOf(RISK_RULES, results[j].RiskType), results[j].Keyword)

\* C3: adding a keyword that its category already holds leaves the rule table
\* as it was
C3_DuplicateAddIsNoOp ==
    [][(/\ last'.op = "add_keyword"
        /\ last'.new_cat = ""
        /\ HasCategory(RISK_RULES, last'.category)
        /\ InList(KeywordsOf(RISK_RULES, last'.category), Lower(last'.keyword)))
       => RISK_RULES' = RISK_RULES]_vars

\* C4: creating a category under a name that exists changes nothing of the
\* table that was there: every category keeps all of its keywords
C4_DuplicateCategoryKeepsKeywords ==
    [][(/\ last'.op = "add_keyword"
        /\ last'.new_cat # ""
        /\ HasCategory(RISK_RULES, last'.new_cat))
       => \A c \in 1..Len(RISK_RULES) :
              /\ HasCategory(RISK_RULES', RISK_RULES[c].name)
              /\ \A k \in 1..Len(RISK_RULES[c].keywords) :
                     InList(KeywordsOf(RISK_RULES', RISK_RULES[c].name),
                            RISK_RULES[c].keywords[k])]_vars

\* C5: once remove_keyword has removed a keyword, the category no longer
\* holds it
C5_RemovedKeywordIsGone ==
    [][(/\ last'.op = "remove_keyword"
        /\ InList(out', "Keyword removed."))
       => ~InList(KeywordsOf(RISK_RULES', last'.category), Lower(last'.keyword))]_vars

\* C8: when the write of one artifact fails, the exports after it in the run
\* are still attempted
C8_ExportsIndependent ==
    /\ csv.status = "failed" => docx.status # "none" /\ chart.status # "none"
    /\ docx.status = "failed" => chart.status # "none"
    /\ pdf.status = "failed" => chart.status # "none"

\* the exceptions that leave read_document
ReadFaults == {"PackageNotFoundError", "PDFSyntaxError", "TypeError"}

\* C9: a document that cannot be read ends that scan only: control is back
\* at the menu, the process has not crashed
C9_ReadFailureReturnsToMenu ==
    fault \in ReadFaults => pc = "menu"

====
